---- MODULE Spec2Model ----
(***************************************************************************)
(* MongoDB -> Elasticsearch integration: the record store, the search      *)
(* index, the change propagator (handleChangeEvent), the two reconcilers   *)
(* (POST /api/sync/bulk and bulkSyncToElasticsearch), the status probe,    *)
(* the query handlers (search, autocomplete, advanced search, get by id)   *)
(* and the startup sequence (startServer).                                 *)
(***************************************************************************)
EXTENDS Integers, Sequences, FiniteSets

VARIABLES
    mongo,             \* record store: ObjectId -> document (with its _id field)
    es,                \* search index: identifier string -> document body
    indexExists,       \* whether the index exists in the engine
    events,            \* change events delivered by the store, not yet applied
    aborted,           \* the change stream stopped because the propagator raised
    changes,           \* number of record store changes made so far
    rejectsMetaField,  \* the engine refuses a source that carries an _id field
    inflight,          \* the snapshot of a POST /api/sync/bulk awaiting its batch write
    server,            \* how far startServer has come
    last               \* the last operation and what its caller observed

vars == <<mongo, es, indexExists, events, aborted, changes, rejectsMetaField,
          inflight, server, last>>

\* ------------------------------------------------------------------ bounds
MaxIds == 2
MaxChanges == 2

\* ------------------------------------------------------------ record store
ObjectIds == 1..MaxIds

\* ObjectId.prototype.toString(): the hex string of an ObjectId.
HexStrings == <<"65a1", "65b2", "65c3", "65d4">>
IdToString(oid) == HexStrings[oid]

\* Values of the IPV4 field; the index maps IPV4 to type ip, so a value that
\* is no address fails to index.
GoodIps == {"10.0.0.1", "10.0.0.2"}
BadIp == "not-an-ip"
Ips == GoodIps \cup {BadIp}

MongoDoc(oid, ip) == [_id |-> oid, IPV4 |-> ip]

EmptyMap == [x \in {} |-> x]

Put(f, k, v) == [x \in DOMAIN f \cup {k} |-> IF x = k THEN v ELSE f[x]]
Remove(f, k) == [x \in DOMAIN f \ {k} |-> f[x]]

\* const { _id, ...docWithoutId } = doc
DocWithoutId(doc) == [f \in DOMAIN doc \ {"_id"} |-> doc[f]]

\* collection.find({}).toArray(): the whole collection, in _id order.
RECURSIVE ToArray(_, _)
ToArray(store, ids) ==
    IF ids = {} THEN << >>
    ELSE LET m == CHOOSE x \in ids : \A y \in ids : x <= y
         IN  <<store[m]>> \o ToArray(store, ids \ {m})

FindAll == ToArray(mongo, DOMAIN mongo)

\* ------------------------------------------------------------ index engine
\* The index mapping: IPV4 is of type ip; a source whose IPV4 is no address is
\* refused, and so is a source carrying the _id metadata field on an engine
\* that refuses metadata fields inside a document.
Refused(body) ==
    \/ rejectsMetaField /\ "_id" \in DOMAIN body
    \/ "IPV4" \in DOMAIN body /\ body.IPV4 \notin GoodIps

\* How the client library renders an identifier that is no string (an
\* ObjectId) in a request path or a bulk action line: its hex string.
ClientId(oid) == IdToString(oid)

\* The engine calls below answer for one request: fault is a transport error
\* or an engine outage, under which the call throws and the index is as it was.

\* error.message of a call the engine did not answer (a transport error), of
\* a search on an index that does not exist (status 404), and of a record
\* store call that failed.
EngineFaultMessage == "connect ECONNREFUSED"
IndexMissingMessage == "index_not_found_exception"
MongoFaultMessage == "MongoNetworkError"

\* esClient.index: create or overwrite the document at id.
EsIndex(id, body, fault) ==
    IF fault THEN [ok |-> FALSE, status |-> 503, es |-> es, exists |-> indexExists]
    ELSE IF Refused(body)
    THEN [ok |-> FALSE, status |-> 400, es |-> es, exists |-> TRUE]
    ELSE [ok |-> TRUE, status |-> 200, es |-> Put(es, id, body), exists |-> TRUE]

\* esClient.update with body {doc}: a partial update of an existing document;
\* the request names no upsert, so a missing document is a 404.
EsUpdate(id, doc, fault) ==
    IF fault THEN [ok |-> FALSE, status |-> 503, es |-> es, exists |-> indexExists]
    ELSE IF ~indexExists \/ id \notin DOMAIN es
    THEN [ok |-> FALSE, status |-> 404, es |-> es, exists |-> indexExists]
    ELSE IF Refused(doc)
    THEN [ok |-> FALSE, status |-> 400, es |-> es, exists |-> indexExists]
    ELSE LET merged == [f \in DOMAIN es[id] \cup DOMAIN doc |->
                           IF f \in DOMAIN doc THEN doc[f] ELSE es[id][f]]
         IN  [ok |-> TRUE, status |-> 200, es |-> Put(es, id, merged),
              exists |-> indexExists]

\* esClient.delete: remove the document at id; a missing document is a 404.
EsDelete(id, fault) ==
    IF fault THEN [ok |-> FALSE, status |-> 503, es |-> es, exists |-> indexExists]
    ELSE IF ~indexExists \/ id \notin DOMAIN es
    THEN [ok |-> FALSE, status |-> 404, es |-> es, exists |-> indexExists]
    ELSE [ok |-> TRUE, status |-> 200, es |-> Remove(es, id), exists |-> indexExists]

\* The action of every line of a batch: { index: { _index, _id } }, which
\* writes the document whether or not one is there; an update action is
\* refused for a document that is not there.
BulkActionUpdate == "update"
BulkAction == "index"

\* esClient.bulk with refresh: every item is an index action decided on its
\* own; a refused item is reported in items and the others are written. The
\* answer is read as the callers read it: errors and items at its top level.
RECURSIVE BulkApply(_, _)
BulkApply(idx, ops) ==
    IF ops = << >> THEN [es |-> idx, items |-> << >>]
    ELSE LET w == Head(ops)
             bad == \/ Refused(w.body)
                    \/ BulkAction = "update" /\ w.id \notin DOMAIN idx
             rest == BulkApply(IF bad THEN idx ELSE Put(idx, w.id, w.body), Tail(ops))
         IN  [es |-> rest.es,
              items |-> <<[index |-> [_id |-> w.id, error |-> bad]]>> \o rest.items]

EsBulk(ops, fault) ==
    IF fault THEN [ok |-> FALSE, es |-> es, exists |-> indexExists,
                   errors |-> FALSE, items |-> << >>]
    ELSE LET r == BulkApply(es, ops)
         IN  [ok |-> TRUE, es |-> r.es, exists |-> TRUE,
              errors |-> \E i \in 1..Len(r.items) : r.items[i].index.error,
              items |-> r.items]

\* esClient.count: the number of documents; a missing index is a 404.
EsCount(fault) ==
    IF fault THEN [ok |-> FALSE, status |-> 503, count |-> 0]
    ELSE IF ~indexExists THEN [ok |-> FALSE, status |-> 404, count |-> 0]
    ELSE [ok |-> TRUE, status |-> 200, count |-> Cardinality(DOMAIN es)]

\* The index is removed outside the program (the state "index does not exist
\* yet" that the status probe and the search handler answer to).
IndexDropped ==
    /\ indexExists
    /\ es' = EmptyMap
    /\ indexExists' = FALSE
    /\ last' = [op |-> "dropped"]
    /\ UNCHANGED <<mongo, events, aborted, changes, rejectsMetaField, inflight, server>>

\* ------------------------------------------------------- change propagator
\* A change event as handleChangeEvent reads it: operationType, documentKey
\* and fullDocument (the whole record after an insert or an update, with its
\* _id; none after a delete).
NoDocument == [absent |-> TRUE]

ChangeEvent(type, oid, doc) ==
    [operationType |-> type, documentKey |-> [_id |-> oid], fullDocument |-> doc]

\* The index write of the insert case: id and body as the propagator sends them.
PropagatorWrite(change) ==
    [id |-> ClientId(change.documentKey._id), body |-> change.fullDocument]

\* The catch block of handleChangeEvent: the error is logged; TRUE iff it is
\* raised to the caller.
CatchChangeErrorRethrow(threw) == threw
CatchChangeError(threw) == FALSE

\* The switch of handleChangeEvent: the index call of one change event.
ApplyChangeWithoutDelete(change, fault) ==
    LET w == PropagatorWrite(change)
    IN  CASE change.operationType = "insert" -> EsIndex(w.id, w.body, fault)
          [] change.operationType = "update" -> EsUpdate(w.id, w.body, fault)
          [] OTHER -> [ok |-> TRUE, status |-> 0, es |-> es, exists |-> indexExists]
ApplyChange(change, fault) ==
    LET w == PropagatorWrite(change)
    IN  CASE change.operationType = "insert" -> EsIndex(w.id, w.body, fault)
          [] change.operationType = "update" -> EsUpdate(w.id, w.body, fault)
          [] change.operationType = "delete" -> EsDelete(w.id, fault)
          [] OTHER -> [ok |-> TRUE, status |-> 0, es |-> es, exists |-> indexExists]

HandleChangeEvent(fault) ==
    /\ ~aborted
    /\ events # << >>
    /\ LET change == Head(events)
           r == ApplyChange(change, fault)
           raised == CatchChangeError(~r.ok)
       IN  /\ es' = r.es
           /\ indexExists' = r.exists
           /\ events' = Tail(events)
           /\ aborted' = raised
           /\ last' = [op |-> "event", type |-> change.operationType,
                       id |-> ClientId(change.documentKey._id),
                       doc |-> change.fullDocument,
                       write |-> PropagatorWrite(change),
                       missing |-> ClientId(change.documentKey._id) \notin DOMAIN es,
                       fault |-> fault, failed |-> ~r.ok, raised |-> raised,
                       afterFailure |-> last.op = "event" /\ last.failed]
    /\ UNCHANGED <<mongo, changes, rejectsMetaField, inflight, server>>

\* -------------------------------------------- record store changes (events)
MongoInsert(oid, ip) ==
    /\ oid \notin DOMAIN mongo
    /\ changes < MaxChanges
    /\ changes' = changes + 1
    /\ mongo' = Put(mongo, oid, MongoDoc(oid, ip))
    /\ events' = Append(events, ChangeEvent("insert", oid, MongoDoc(oid, ip)))
    /\ last' = [op |-> "store"]
    /\ UNCHANGED <<es, indexExists, aborted, rejectsMetaField, inflight, server>>

MongoUpdate(oid, ip) ==
    /\ oid \in DOMAIN mongo
    /\ mongo[oid].IPV4 # ip
    /\ changes < MaxChanges
    /\ changes' = changes + 1
    /\ mongo' = Put(mongo, oid, MongoDoc(oid, ip))
    /\ events' = Append(events, ChangeEvent("update", oid, MongoDoc(oid, ip)))
    /\ last' = [op |-> "store"]
    /\ UNCHANGED <<es, indexExists, aborted, rejectsMetaField, inflight, server>>

MongoDelete(oid) ==
    /\ oid \in DOMAIN mongo
    /\ changes < MaxChanges
    /\ changes' = changes + 1
    /\ mongo' = Remove(mongo, oid)
    /\ events' = Append(events, ChangeEvent("delete", oid, NoDocument))
    /\ last' = [op |-> "store"]
    /\ UNCHANGED <<es, indexExists, aborted, rejectsMetaField, inflight, server>>

\* ------------------------------------------------------------- reconcilers
\* What a call to a backing store can meet in one request: no fault, the
\* record store failing, or the index engine failing (a transport error).
Faults == {"none", "mongo", "es"}

\* The bulk action line and source of one document, as POST /api/sync/bulk
\* builds them: the string form of _id, and the document without _id.
RouteWriteAutoId(doc) ==
    [id |-> HexStrings[(Cardinality(DOMAIN es) % Len(HexStrings)) + 1],
     body |-> DocWithoutId(doc)]
RouteWrite(doc) == [id |-> IdToString(doc._id), body |-> DocWithoutId(doc)]

\* The same, as bulkSyncToElasticsearch builds them: _id as it is, and the
\* whole document.
ServiceWrite(doc) == [id |-> ClientId(doc._id), body |-> doc]

RouteBody(documents) == [i \in 1..Len(documents) |-> RouteWrite(documents[i])]
ServiceBody(documents) == [i \in 1..Len(documents) |-> ServiceWrite(documents[i])]

\* response.items.filter(item => item.index && item.index.error)
FailedItemsUnfiltered(items) == items
FailedItems(items) == SelectSeq(items, LAMBDA item : item.index.error)

\* What a reconcile leaves in last: which reconciler ran, whether it ran
\* right after a completed run of the same reconciler, whether its batch call
\* returned (or the collection was empty), whether a backing store failed,
\* how many documents the engine refused, the batch sent, and the answer.
ReconcileOutcome(via, completed, writes, items, answer) ==
    [op |-> "reconcile", via |-> via,
     again |-> last.op = "reconcile" /\ last.via = via /\ last.completed,
     completed |-> completed, fault |-> ~completed,
     failing |-> Len(SelectSeq(items, LAMBDA item : item.index.error)),
     writes |-> writes, answer |-> answer]

\* POST /api/sync/bulk from the documents that find({}).toArray() returned.
ReconcileRouteFrom(documents, fault) ==
    LET body == RouteBody(documents)
        response == EsBulk(body, fault = "es")
        failed == [status |-> 500,
                   json |-> [success |-> FALSE, error |-> "Bulk sync failed",
                             message |-> IF fault = "mongo" THEN MongoFaultMessage
                                         ELSE EngineFaultMessage]]
    IN  /\ UNCHANGED <<mongo, events, aborted, changes, rejectsMetaField, server>>
        /\ IF fault = "mongo"
           THEN /\ UNCHANGED <<es, indexExists>>
                /\ last' = ReconcileOutcome("route", FALSE, << >>, << >>, failed)
           ELSE IF Len(documents) = 0
           THEN /\ UNCHANGED <<es, indexExists>>
                /\ last' = ReconcileOutcome("route", TRUE, << >>, << >>,
                     [status |-> 200,
                      json |-> [success |-> TRUE,
                                message |-> "No documents found in MongoDB to sync",
                                documentsProcessed |-> 0]])
           ELSE /\ es' = response.es
                /\ indexExists' = response.exists
                /\ last' =
                     IF ~response.ok
                     THEN ReconcileOutcome("route", FALSE, body, << >>, failed)
                     ELSE IF response.errors
                     THEN ReconcileOutcome("route", TRUE, body, response.items,
                            [status |-> 500,
                             json |-> [success |-> FALSE,
                                       error |-> "Bulk sync completed with errors",
                                       documentsProcessed |-> Len(documents),
                                       errors |-> FailedItems(response.items)]])
                     ELSE ReconcileOutcome("route", TRUE, body, response.items,
                            [status |-> 200,
                             json |-> [success |-> TRUE,
                                       message |-> "Bulk sync completed successfully",
                                       documentsProcessed |-> Len(documents)]])

\* POST /api/sync/bulk as one step: the snapshot is read and the batch is
\* written with nothing in between.
ReconcileRoute(fault) ==
    /\ ~inflight.pending
    /\ ReconcileRouteFrom(FindAll, fault)
    /\ UNCHANGED inflight

\* POST /api/sync/bulk suspends at its two awaits, and change events are
\* handled in between. No request awaiting its batch write:
NoBatch == [pending |-> FALSE, documents |-> << >>, overtook |-> {}]

\* First await: find({}).toArray() returns the snapshot. A failing record
\* store or an empty collection is answered at once; otherwise the request
\* holds the snapshot until its batch write arrives at the engine.
ReconcileRouteFind(fault) ==
    /\ ~inflight.pending
    /\ IF fault \/ Len(FindAll) = 0
       THEN /\ ReconcileRouteFrom(FindAll, IF fault THEN "mongo" ELSE "none")
            /\ inflight' = NoBatch
       ELSE /\ inflight' = [pending |-> TRUE, documents |-> FindAll, overtook |-> {}]
            /\ last' = [op |-> "find"]
            /\ UNCHANGED <<mongo, es, indexExists, events, aborted, changes,
                           rejectsMetaField, server>>

\* Second await: esClient.bulk writes the batch built from the snapshot and
\* the request is answered. overtook keeps the identifier of the delete
\* event that was applied (the engine was reached) right before this write.
ReconcileRouteBulk(fault) ==
    /\ inflight.pending
    /\ ReconcileRouteFrom(inflight.documents, IF fault THEN "es" ELSE "none")
    /\ inflight' = [NoBatch EXCEPT !.overtook =
                       IF last.op = "event" /\ last.type = "delete" /\ ~last.fault
                       THEN {last.id} ELSE {}]

\* bulkSyncToElasticsearch
BulkSyncToElasticsearch(fault) ==
    LET documents == FindAll
        body == ServiceBody(documents)
        response == EsBulk(body, fault = "es")
    IN  /\ UNCHANGED <<mongo, events, aborted, changes, rejectsMetaField, inflight, server>>
        /\ IF fault = "mongo"
           THEN /\ UNCHANGED <<es, indexExists>>
                /\ last' = ReconcileOutcome("service", FALSE, << >>, << >>,
                                            [threw |-> TRUE])
           ELSE IF Len(documents) > 0
           THEN /\ es' = response.es
                /\ indexExists' = response.exists
                /\ last' =
                     IF ~response.ok
                     THEN ReconcileOutcome("service", FALSE, body, << >>,
                                           [threw |-> TRUE])
                     ELSE ReconcileOutcome("service", TRUE, body, response.items,
                            [threw |-> FALSE, returned |-> Len(documents)])
           ELSE /\ UNCHANGED <<es, indexExists>>
                /\ last' = ReconcileOutcome("service", TRUE, << >>, << >>,
                            [threw |-> FALSE, returned |-> Len(documents)])

\* ------------------------------------------------------------ status probe
\* The catch around esClient.count: a 404 is "index does not exist yet" and
\* counts as zero; any other error is thrown again.
CountOrZeroRethrowAll(r) == [ok |-> r.ok, count |-> r.count]
CountOrZero(r) ==
    IF r.ok THEN [ok |-> TRUE, count |-> r.count]
    ELSE IF r.status = 404 THEN [ok |-> TRUE, count |-> 0]
    ELSE [ok |-> FALSE, count |-> 0]

\* GET /api/sync/status
SyncStatus(fault) ==
    LET mongoCount == Cardinality(DOMAIN mongo)
        c == CountOrZero(EsCount(fault = "es"))
        esCount == c.count
    IN  /\ UNCHANGED <<mongo, es, indexExists, events, aborted, changes,
                     rejectsMetaField, inflight, server>>
        /\ last' =
             IF fault = "mongo" \/ ~c.ok
             THEN [op |-> "status", fault |-> fault,
                   status |-> 500,
                   json |-> [error |-> "Failed to get sync status",
                             message |-> IF fault = "mongo" THEN MongoFaultMessage
                                         ELSE EngineFaultMessage]]
             ELSE [op |-> "status", fault |-> fault,
                   status |-> 200,
                   json |-> [mongodb |-> [count |-> mongoCount],
                             elasticsearch |-> [count |-> esCount],
                             synced |-> mongoCount = esCount,
                             difference |-> mongoCount - esCount]]

\* --------------------------------------------------------------- projector
TextFields == <<"CLUSTERID", "SITE", "DESCRIPTION">>
Texts == {"", "cluster-1", "east", "lab"}

\* Records given to the projector: _id and any of the text fields, each
\* with any text, the empty string included.
ProjectorInputs ==
    LET texts == UNION {[{TextFields[i] : i \in S} -> Texts] :
                           S \in SUBSET (1..Len(TextFields))}
    IN  {[f \in DOMAIN t \cup {"_id"} |-> IF f = "_id" THEN 1 ELSE t[f]] : t \in texts}

\* if (doc.F) suggest.push(doc.F): a missing field and the empty string are falsy.
PushIfTruthy(suggest, doc, f) ==
    IF f \in DOMAIN doc /\ doc[f] # "" THEN Append(suggest, doc[f]) ELSE suggest

\* transformForElasticsearch
TransformForElasticsearch(doc) ==
    LET s1 == PushIfTruthy(<< >>, doc, "CLUSTERID")
        s2 == PushIfTruthy(s1, doc, "SITE")
        s3 == PushIfTruthy(s2, doc, "DESCRIPTION")
    IN  [f \in DOMAIN doc \cup {"suggest"} |->
            IF f = "suggest"
            THEN [input |-> s3, contexts |-> [category |-> <<"subnet", "network">>]]
            ELSE doc[f]]

Transform(doc) ==
    /\ last' = [op |-> "transform", doc |-> doc, out |-> TransformForElasticsearch(doc)]
    /\ UNCHANGED <<mongo, es, indexExists, events, aborted, changes,
                     rejectsMetaField, inflight, server>>

\* ----------------------------------------------------------------- search
\* A request's query string is a function from the names of the parameters
\* it carries to their strings; an absent parameter is not in its DOMAIN.
Absent == "<absent>"
Strip(f) == [k \in {x \in DOMAIN f : f[x] # Absent} |-> f[k]]

\* Requests that vary the free-text term, the field and the fuzzy directive.
QueryRequests ==
    {Strip([q |-> q, field |-> fld, fuzzy |-> fz, fuzziness |-> fzn]) :
        q \in {Absent, "", " ", "*", "east"},
        fld \in {Absent, "", "SITE", "site", "VALUE", "NOPE"},
        fz \in {Absent, "true", "false", "maybe"},
        fzn \in {Absent, "AUTO", "1", "7"}}

\* Requests that vary the pagination.
PageRequests ==
    {Strip([q |-> q, size |-> sz, from |-> fr]) :
        q \in {"*", "east"},
        sz \in {Absent, "", " ", "0", "1", "100", "101", "1e3", "abc"},
        fr \in {Absent, "-1", "0", "5", "1e3", "abc"}}

\* Requests that vary the sort.
SortRequests ==
    {Strip([q |-> "east", sortBy |-> sb, sortOrder |-> so]) :
        sb \in {Absent, "_score", "TIMESTAMP", "bogus"},
        so \in {Absent, "asc", "desc", "up"}}

SearchRequests == QueryRequests \cup PageRequests \cup SortRequests

\* A parameter is truthy when it is present and not the empty string.
Truthy(req, name) == name \in DOMAIN req /\ req[name] # ""

\* String.prototype.trim, toLowerCase and toUpperCase on the strings above.
Trim(str) == CASE str = " " -> "" [] str = " west" -> "west" [] OTHER -> str
ToLowerCase(str) ==
    CASE str = "SITE" -> "site" [] str = "VALUE" -> "value" [] str = "NOPE" -> "nope"
      [] str = "AUTO" -> "auto" [] str = "C" -> "c" [] str = "C1" -> "c1"
      [] str = "East" -> "east" [] str = "EAST" -> "east" [] OTHER -> str
ToUpperCase(str) ==
    CASE str = "site" -> "SITE" [] str = "east" -> "EAST" [] str = "true" -> "TRUE"
      [] str = "false" -> "FALSE" [] str = "maybe" -> "MAYBE" [] OTHER -> str

\* A JavaScript number: an integer or NaN.
Num(n) == [nan |-> FALSE, val |-> n]
NaN == [nan |-> TRUE, val |-> 0]
Less(a, b) == ~a.nan /\ ~b.nan /\ a.val < b.val

\* parseInt(str) on the strings above: the leading decimal digits, so that
\* parseInt("1e3") is 1; NaN when there is none.
ParseInt(str) ==
    CASE str = "0" -> Num(0) [] str = "1" -> Num(1) [] str = "5" -> Num(5)
      [] str = "100" -> Num(100) [] str = "101" -> Num(101) [] str = "-1" -> Num(-1)
      [] str = "1e3" -> Num(1) [] str = "20" -> Num(20) [] str = "21" -> Num(21)
      [] OTHER -> NaN

\* Number(str) on the strings above: the whole string as a numeric literal,
\* so that Number("1e3") is 1000; the empty and the blank string are 0.
NumberOf(str) ==
    CASE str = "" -> Num(0) [] str = " " -> Num(0) [] str = "1e3" -> Num(1000)
      [] OTHER -> ParseInt(str)

\* isNaN(str): whether Number(str) is NaN.
IsNaN(str) == NumberOf(str).nan

\* validateSearch: "next", or the error of the 400 answer.
ValidateSearch(req) ==
    IF ~Truthy(req, "q") \/ Trim(req.q) = ""
    THEN "Query parameter \"q\" is required and cannot be empty"
    ELSE IF /\ Truthy(req, "size")
            /\ \/ IsNaN(req.size)
               \/ Less(ParseInt(req.size), Num(1))
               \/ Less(Num(100), ParseInt(req.size))
    THEN "Size must be a number between 1 and 100"
    ELSE IF Truthy(req, "from") /\ (IsNaN(req.from) \/ Less(ParseInt(req.from), Num(0)))
    THEN "From must be a non-negative number"
    ELSE IF Truthy(req, "fuzzy") /\ ToLowerCase(req.fuzzy) \notin {"true", "false"}
    THEN "Fuzzy must be true or false"
    ELSE IF Truthy(req, "fuzziness") /\ req.fuzziness \notin {"AUTO", "0", "1", "2"}
    THEN "Fuzziness must be AUTO, 0, 1, or 2"
    ELSE "next"

\* fuzzy ? fuzziness : 0, with fuzziness defaulting to 'AUTO' when absent.
Fuzziness(req) ==
    IF Truthy(req, "fuzzy")
    THEN [string |-> IF "fuzziness" \in DOMAIN req THEN req.fuzziness ELSE "AUTO"]
    ELSE [number |-> 0]

MatchAll == [kind |-> "match_all", ok |-> TRUE]

\* One clause of a should list: the strategy (term, wildcard for the pattern
\* *value*, match, autocomplete for a match on FIELD.autocomplete, prefix),
\* the field, the value looked for and the boost in tenths (3.0 is 30).
Clause(strategy, field, value, boost) ==
    [strategy |-> strategy, field |-> field, value |-> value, boost |-> boost]

\* buildMultiFieldQuery: a should list of five groups, each a should list of
\* its own, which is the disjunction of all their clauses; the match on VALUE
\* carries the fuzziness.
BuildMultiFieldQuery(q, fuzziness) ==
    [kind |-> "multi", ok |-> TRUE, q |-> q, lower |-> ToLowerCase(q),
     fuzziness |-> fuzziness,
     should |-> <<Clause("term", "CLUSTERID", q, 30),
                  Clause("term", "SITE", q, 30),
                  Clause("term", "USERNAME", q, 20),
                  Clause("wildcard", "CLUSTERID", ToLowerCase(q), 25),
                  Clause("wildcard", "SITE", ToLowerCase(q), 25),
                  Clause("wildcard", "USERNAME", ToLowerCase(q), 15),
                  Clause("wildcard", "VALUE", ToLowerCase(q), 20),
                  Clause("match", "VALUE", q, 20),
                  Clause("autocomplete", "CLUSTERID", q, 20),
                  Clause("autocomplete", "SITE", q, 20),
                  Clause("prefix", "CLUSTERID", ToLowerCase(q), 15),
                  Clause("prefix", "SITE", ToLowerCase(q), 15),
                  Clause("prefix", "USERNAME", ToLowerCase(q), 10)>>]

FieldMapping ==
    [CLUSTERID |-> "keyword", SITE |-> "keyword", VALUE |-> "text",
     USERNAME |-> "keyword", CIDR |-> "keyword", CIDRIPV4 |-> "keyword"]

\* buildFieldSpecificQuery: ok is FALSE when it throws 'Invalid field'.
BuildFieldSpecificQuery(q, field, fuzziness) ==
    IF ToUpperCase(field) \notin DOMAIN FieldMapping
    THEN [kind |-> "invalid", ok |-> FALSE, field |-> field]
    ELSE IF FieldMapping[ToUpperCase(field)] = "keyword"
    THEN [kind |-> "keyword", ok |-> TRUE, field |-> field, q |-> q,
          lower |-> ToLowerCase(q),
          should |-> <<Clause("term", field, q, 30),
                       Clause("wildcard", field, ToLowerCase(q), 20),
                       Clause("prefix", field, ToLowerCase(q), 15)>>]
    ELSE [kind |-> "text", ok |-> TRUE, field |-> field, q |-> q,
          fuzziness |-> fuzziness]

\* The query of searchController.search: the wildcard shortcut first, then
\* the field-scoped builder when a field is given, else the multi-field one.
BuildQueryFieldFirst(req) ==
    IF Truthy(req, "field")
    THEN BuildFieldSpecificQuery(req.q, req.field, Fuzziness(req))
    ELSE IF req.q = "*" THEN MatchAll
    ELSE BuildMultiFieldQuery(req.q, Fuzziness(req))
BuildQuery(req) ==
    IF req.q = "*" THEN MatchAll
    ELSE IF Truthy(req, "field")
    THEN BuildFieldSpecificQuery(req.q, req.field, Fuzziness(req))
    ELSE BuildMultiFieldQuery(req.q, Fuzziness(req))

\* buildSortConfig
BuildSortConfig(sortBy, sortOrder) ==
    LET field == IF sortBy \in {"_score", "TIMESTAMP", "CLUSTERID", "SITE", "USERNAME"}
                 THEN sortBy ELSE "_score"
        order == IF sortOrder \in {"asc", "desc"} THEN sortOrder ELSE "desc"
    IN  IF field = "_score" THEN <<[field |-> "_score", order |-> order]>>
        ELSE <<[field |-> field, order |-> order],
               [field |-> "_score", order |-> "desc"]>>

\* The body of esClient.search as searchController.search builds it.
SearchBody(req) ==
    [query |-> BuildQuery(req),
     size |-> IF "size" \in DOMAIN req THEN ParseInt(req.size) ELSE Num(10),
     from |-> IF "from" \in DOMAIN req THEN ParseInt(req.from) ELSE Num(0),
     sort |-> BuildSortConfig(IF "sortBy" \in DOMAIN req THEN req.sortBy ELSE "_score",
                              IF "sortOrder" \in DOMAIN req THEN req.sortOrder
                              ELSE "desc")]

\* process.env.NODE_ENV as the process may be started.
NodeEnvs == {"development", "production", "test"}

\* process.env.NODE_ENV === 'development' ? error.message : 'Internal server error'
ServiceMessage(nodeEnv, message) ==
    IF nodeEnv = "development" THEN message ELSE "Internal server error"

\* What is left of a request whose query was not built or not sent.
NoBody == [query |-> [kind |-> "none", ok |-> FALSE]]

\* ------------------------------------------------ answers of esClient.search
\* The JavaScript values of a raw answer: undefined, a number, a string, or
\* an object (a record with t = "object" and the members it has).
Undefined == [t |-> "undefined"]
JsNumber(n) == [t |-> "number", v |-> n]
JsString(str) == [t |-> "string", v |-> str]
JsObject(members) ==
    [k \in DOMAIN members \cup {"t"} |-> IF k = "t" THEN "object" ELSE members[k]]

\* Truthiness: undefined, 0 and the empty string are falsy, an object is truthy.
JsTruthy(x) ==
    CASE x.t = "undefined" -> FALSE
      [] x.t = "number" -> x.v # 0
      [] x.t = "string" -> x.v # ""
      [] OTHER -> TRUE

\* a || b
Or(a, b) == IF JsTruthy(a) THEN a ELSE b

\* x?.name: the member of an object; undefined on undefined, on a number and
\* on an object without that member.
Member(x, name) ==
    IF x.t = "object" /\ name \in DOMAIN x THEN x[name] ELSE Undefined

\* hits.total as the engine reports it: a number (engines before 7), or an
\* object with value and relation.
Totals ==
    {JsNumber(0), JsNumber(3),
     JsObject([value |-> JsNumber(0), relation |-> JsString("eq")]),
     JsObject([value |-> JsNumber(3), relation |-> JsString("eq")]),
     JsObject([value |-> JsNumber(10000), relation |-> JsString("gte")])}

\* One hit of an answer; the engine leaves highlight out when nothing matched
\* a highlighted field.
RawHit(id, highlighted) ==
    IF highlighted
    THEN [_id |-> id, _score |-> 2, _source |-> [SITE |-> "east"],
          highlight |-> [SITE |-> "<mark>east</mark>"]]
    ELSE [_id |-> id, _score |-> 1, _source |-> [SITE |-> "east"]]

HitArrays == {<< >>, <<RawHit("65a1", TRUE)>>, <<RawHit("65a1", TRUE), RawHit("65b2", FALSE)>>}

\* The hits object of an answer, with or without its total and its hits.
HitsObjects ==
    {JsObject(EmptyMap)}
        \cup {JsObject([total |-> t]) : t \in Totals}
        \cup {JsObject([hits |-> a]) : a \in HitArrays}
        \cup {JsObject([total |-> t, hits |-> a]) : t \in Totals, a \in HitArrays}

\* A raw answer: hits under body (client 7), hits at the top (client 8), or
\* no hits at all.
SearchResponses ==
    {JsObject([body |-> JsObject([hits |-> h])]) : h \in HitsObjects}
        \cup {JsObject([hits |-> h]) : h \in HitsObjects}
        \cup {JsObject([body |-> JsObject(EmptyMap)]), JsObject(EmptyMap)}

\* response.body?.hits || response.hits || { total: { value: 0 }, hits: [] }
HitsOf(response) ==
    Or(Member(Member(response, "body"), "hits"),
       Or(Member(response, "hits"),
          JsObject([total |-> JsObject([value |-> JsNumber(0)]), hits |-> << >>])))

\* hits.total?.value || hits.total || 0
TotalValue(hits) ==
    Or(Member(Member(hits, "total"), "value"), Or(Member(hits, "total"), JsNumber(0)))

\* hits.total?.relation || "eq"
TotalRelation(hits) == Or(Member(Member(hits, "total"), "relation"), JsString("eq"))

\* hits.hits?.map(hit => ({id, score, source, highlight: hit.highlight || {}})) || []
FormatHits(hits) ==
    IF "hits" \notin DOMAIN hits THEN << >>
    ELSE [i \in 1..Len(hits.hits) |->
            [id |-> hits.hits[i]._id, score |-> hits.hits[i]._score,
             source |-> hits.hits[i]._source,
             highlight |-> IF "highlight" \in DOMAIN hits.hits[i]
                           THEN hits.hits[i].highlight ELSE EmptyMap]]

\* The answer of searchController.search to a raw answer of the engine.
FormatSearchResult(response) ==
    LET hits == HitsOf(response)
    IN  [total |-> [value |-> TotalValue(hits), relation |-> TotalRelation(hits)],
         hits |-> FormatHits(hits)]

\* GET /api/search: validateSearch, then searchController.search.
Search(req, fault, nodeEnv, response) ==
    LET invalid == ValidateSearch(req)
        answer(status, sent, body, json) ==
            [op |-> "search", req |-> req, fault |-> fault, nodeEnv |-> nodeEnv,
             status |-> status, sent |-> sent, body |-> body, json |-> json,
             response |-> IF status = 200 THEN response ELSE Undefined]
    IN  /\ UNCHANGED <<mongo, es, indexExists, events, aborted, changes,
                     rejectsMetaField, inflight, server>>
        /\ last' =
             IF invalid # "next" THEN answer(400, FALSE, NoBody, [error |-> invalid])
             ELSE IF ~Truthy(req, "q")
             THEN answer(400, FALSE, NoBody,
                         [error |-> "Query parameter \"q\" is required"])
             ELSE IF ~BuildQuery(req).ok
             THEN answer(500, FALSE, NoBody,
                         [error |-> "Search failed",
                          message |-> ServiceMessage(nodeEnv, "Invalid field")])
             ELSE IF fault
             THEN answer(500, TRUE, SearchBody(req),
                         [error |-> "Search failed",
                          message |-> ServiceMessage(nodeEnv, EngineFaultMessage)])
             ELSE IF ~indexExists
             THEN answer(404, TRUE, SearchBody(req),
                         [error |-> "Search index not found",
                          message |-> "Please run bulk sync first to create the index"])
             ELSE answer(200, TRUE, SearchBody(req), FormatSearchResult(response))

\* ------------------------------------------------------------ autocomplete
\* The characters of the strings that are compared by content.
Chars(str) ==
    CASE str = "" -> << >>
      [] str = "c" -> <<"c">> [] str = "1" -> <<"1">> [] str = "z" -> <<"z">>
      [] str = "c1" -> <<"c", "1">> [] str = "c2" -> <<"c", "2">>
      [] str = "c3" -> <<"c", "3">> [] str = "c4" -> <<"c", "4">>
      [] str = "c5" -> <<"c", "5">> [] str = "c6" -> <<"c", "6">>
      [] str = "c7" -> <<"c", "7">> [] str = "c8" -> <<"c", "8">>
      [] str = "c9" -> <<"c", "9">> [] str = "ca" -> <<"c", "a">>
      [] str = "cb" -> <<"c", "b">> [] str = "cc" -> <<"c", "c">>
      [] str = "x1" -> <<"x", "1">>
      [] str = "ann" -> <<"a", "n", "n">> [] str = "bob" -> <<"b", "o", "b">>
      [] str = "ea" -> <<"e", "a">> [] str = "st" -> <<"s", "t">>
      [] str = "east" -> <<"e", "a", "s", "t">>
      [] str = "west" -> <<"w", "e", "s", "t">>
      [] str = "East" -> <<"E", "a", "s", "t">>
      [] str = "lab" -> <<"l", "a", "b">>

\* String.prototype.includes and startsWith
Includes(str, part) ==
    \E i \in 0..(Len(Chars(str)) - Len(Chars(part))) :
        SubSeq(Chars(str), i + 1, i + Len(Chars(part))) = Chars(part)
StartsWith(str, part) ==
    /\ Len(Chars(part)) <= Len(Chars(str))
    /\ SubSeq(Chars(str), 1, Len(Chars(part))) = Chars(part)

\* The _source of a hit of autocomplete: the engine returns the four fields
\* the request names in _source, those the document has.
AutocompleteSources ==
    {[CLUSTERID |-> "c1", SITE |-> "c2", USERNAME |-> "c3", VALUE |-> "c4"],
     [CLUSTERID |-> "c5", SITE |-> "c6", USERNAME |-> "c7", VALUE |-> "c8"],
     [CLUSTERID |-> "c9", SITE |-> "ca", USERNAME |-> "cb", VALUE |-> "cc"],
     [CLUSTERID |-> "c1", SITE |-> "C1", USERNAME |-> "x1"],
     [CLUSTERID |-> "", VALUE |-> "C1"]}

MaxHits == 3

\* The hits of an answer: up to MaxHits hits.
AutocompleteHits ==
    UNION {[1..n -> {[_source |-> src] : src \in AutocompleteSources}] : n \in 0..MaxHits}

\* The raw answers to autocomplete: hits under body, hits at the top, none.
AutocompleteResponses ==
    {JsObject([body |-> JsObject([hits |-> JsObject([hits |-> a])])]) :
        a \in AutocompleteHits}
        \cup {JsObject([hits |-> JsObject([hits |-> a])]) :
                 a \in {h \in AutocompleteHits : Len(h) <= 1}}
        \cup {JsObject(EmptyMap)}

\* Requests that vary the prefix and the field, and requests that vary the size.
AutocompleteRequests ==
    {Strip([q |-> q, field |-> fld]) :
        q \in {Absent, "", " ", "c", "C", "1", "z"},
        fld \in {Absent, "", "CLUSTERID", "VALUE", "IPV4"}}
        \cup {Strip([q |-> "c", size |-> sz]) :
                 sz \in {Absent, "", " ", "0", "1", "20", "21", "abc"}}

\* validateAutocomplete: "next", or the error of the 400 answer.
ValidateAutocomplete(req) ==
    IF ~Truthy(req, "q") \/ Trim(req.q) = ""
    THEN "Query parameter \"q\" is required and cannot be empty"
    ELSE IF /\ Truthy(req, "size")
            /\ \/ IsNaN(req.size)
               \/ Less(ParseInt(req.size), Num(1))
               \/ Less(Num(20), ParseInt(req.size))
    THEN "Size must be a number between 1 and 20"
    ELSE "next"

\* Set.prototype.add on a Set kept in insertion order.
SetAddAlways(set, x) == Append(set, x)
SetAdd(set, x) ==
    IF \E i \in 1..Len(set) : set[i] = x THEN set ELSE Append(set, x)

\* if (source[F] && source[F].toLowerCase().includes(query.toLowerCase()))
\*     suggestions.add(source[F])
AddIfIncludes(set, source, f, query) ==
    IF /\ f \in DOMAIN source
       /\ source[f] # ""
       /\ Includes(ToLowerCase(source[f]), ToLowerCase(query))
    THEN SetAdd(set, source[f])
    ELSE set

\* The body of hits.forEach in formatAutocompleteSuggestions, for one hit.
AddHit(set, source, query, field) ==
    IF field # ""
    THEN AddIfIncludes(set, source, field, query)
    ELSE LET s1 == AddIfIncludes(set, source, "CLUSTERID", query)
             s2 == AddIfIncludes(s1, source, "SITE", query)
             s3 == AddIfIncludes(s2, source, "USERNAME", query)
         IN  AddIfIncludes(s3, source, "VALUE", query)

RECURSIVE CollectSuggestions(_, _, _, _)
CollectSuggestions(set, hits, query, field) ==
    IF hits = << >> THEN set
    ELSE CollectSuggestions(AddHit(set, Head(hits)._source, query, field),
                            Tail(hits), query, field)

\* .slice(0, 10)
MaxSuggestions == 10
Slice(seq, n) == SubSeq(seq, 1, IF Len(seq) < n THEN Len(seq) ELSE n)

\* formatAutocompleteSuggestions; field is "" when the request names none.
FormatAutocompleteSuggestions(hits, query, field) ==
    LET texts == Slice(CollectSuggestions(<< >>, hits, query, field), MaxSuggestions)
    IN  [i \in 1..Len(texts) |-> [text |-> texts[i], type |-> "suggestion"]]

\* The query of searchController.autocomplete.
AutocompleteQuery(q, field) ==
    IF field # ""
    THEN [kind |-> "autocomplete-field", ok |-> TRUE,
          should |-> <<Clause("prefix", field, ToLowerCase(q), 10),
                       Clause("wildcard", field, ToLowerCase(q), 10)>>]
    ELSE [kind |-> "autocomplete-multi", ok |-> TRUE,
          should |-> <<Clause("prefix", "CLUSTERID", ToLowerCase(q), 30),
                       Clause("prefix", "SITE", ToLowerCase(q), 30),
                       Clause("prefix", "USERNAME", ToLowerCase(q), 20),
                       Clause("autocomplete", "CLUSTERID", q, 25),
                       Clause("autocomplete", "SITE", q, 25),
                       Clause("wildcard", "VALUE", ToLowerCase(q), 10)>>]

\* response.body?.hits || response.hits || { hits: [] }
AutocompleteHitsOf(response) ==
    Or(Member(Member(response, "body"), "hits"),
       Or(Member(response, "hits"), JsObject([hits |-> << >>])))

\* GET /api/search/autocomplete: validateAutocomplete, then
\* searchController.autocomplete. Its catch answers every error alike, with
\* error.message.
Autocomplete(req, fault, nodeEnv, response) ==
    LET invalid == ValidateAutocomplete(req)
        field == IF Truthy(req, "field") THEN req.field ELSE ""
        body == [query |-> AutocompleteQuery(req.q, field),
                 size |-> IF "size" \in DOMAIN req THEN ParseInt(req.size) ELSE Num(5)]
        answer(status, sent, sentBody, json) ==
            [op |-> "autocomplete", req |-> req, fault |-> fault, nodeEnv |-> nodeEnv,
             status |-> status, sent |-> sent, body |-> sentBody, json |-> json,
             response |-> IF status = 200 THEN response ELSE Undefined]
    IN  /\ UNCHANGED <<mongo, es, indexExists, events, aborted, changes,
                     rejectsMetaField, inflight, server>>
        /\ last' =
             IF invalid # "next" THEN answer(400, FALSE, NoBody, [error |-> invalid])
             ELSE IF fault
             THEN answer(500, TRUE, body,
                         [error |-> "Autocomplete failed", message |-> EngineFaultMessage])
             ELSE IF ~indexExists
             THEN answer(500, TRUE, body,
                         [error |-> "Autocomplete failed", message |-> IndexMissingMessage])
             ELSE answer(200, TRUE, body,
                         [query |-> req.q,
                          suggestions |-> FormatAutocompleteSuggestions(
                              AutocompleteHitsOf(response).hits, req.q, field)])

\* --------------------------------------------------------- advanced search
\* TIMESTAMP values and date parameters: ISO dates, compared as the engine
\* compares dates.
Dates == <<"2024-01-01", "2024-02-01", "2024-03-01">>
DateValue(str) == CHOOSE i \in 1..Len(Dates) : Dates[i] = str

\* Requests that vary the text and the filters, and requests that vary the
\* pagination and the sort.
AdvancedRequests ==
    {Strip([q |-> q, sites |-> st, clusters |-> cl, usernames |-> us,
            dateFrom |-> df, dateTo |-> dt]) :
        q \in {Absent, "", "east"},
        st \in {Absent, "", " ", "east", "east, west"},
        cl \in {Absent, "c1", "c1,c2"},
        us \in {Absent, "ann"},
        df \in {Absent, Dates[2], Dates[3]},
        dt \in {Absent, Dates[1], Dates[2]}}
        \cup {Strip([size |-> sz, from |-> fr, sortBy |-> sb, sortOrder |-> so]) :
                 sz \in {Absent, "0", "101", "abc"},
                 fr \in {Absent, "-1"},
                 sb \in {Absent, "TIMESTAMP", "bogus"},
                 so \in {Absent, "asc"}}

\* str.split(',') on the lists above, and .map(s => s.trim())
Split(str) ==
    CASE str = "east, west" -> <<"east", " west">>
      [] str = "c1,c2" -> <<"c1", "c2">>
      [] OTHER -> <<str>>
SplitTrim(str) == [i \in 1..Len(Split(str)) |-> Trim(Split(str)[i])]

\* { terms: { FIELD: list.split(',').map(trim) } }
TermsFilter(field, list) == [kind |-> "terms", field |-> field, values |-> SplitTrim(list)]

\* const dateRange = {}; if (dateFrom) dateRange.gte = ...; if (dateTo) dateRange.lte = ...
DateRangeWithoutUpper(req) ==
    [k \in (IF Truthy(req, "dateFrom") THEN {"gte"} ELSE {}) |-> req.dateFrom]
DateRange(req) ==
    [k \in (IF Truthy(req, "dateFrom") THEN {"gte"} ELSE {})
               \cup (IF Truthy(req, "dateTo") THEN {"lte"} ELSE {}) |->
        IF k = "gte" THEN req.dateFrom ELSE req.dateTo]

\* The query of searchController.advancedSearch: bool {must, filter}, or
\* match_all when both are empty.
AdvancedQuery(req) ==
    LET must == IF Truthy(req, "q")
                THEN <<BuildMultiFieldQuery(req.q, [number |-> 0])>> ELSE << >>
        f1 == IF Truthy(req, "sites")
              THEN <<TermsFilter("SITE", req.sites)>> ELSE << >>
        f2 == IF Truthy(req, "clusters")
              THEN <<TermsFilter("CLUSTERID", req.clusters)>> ELSE << >>
        f3 == IF Truthy(req, "usernames")
              THEN <<TermsFilter("USERNAME", req.usernames)>> ELSE << >>
        f4 == IF Truthy(req, "dateFrom") \/ Truthy(req, "dateTo")
              THEN <<[kind |-> "range", field |-> "TIMESTAMP", range |-> DateRange(req)]>>
              ELSE << >>
        filter == f1 \o f2 \o f3 \o f4
    IN  IF must = << >> /\ filter = << >> THEN MatchAll
        ELSE [kind |-> "bool", ok |-> TRUE, must |-> must, filter |-> filter]

\* The body of esClient.search as advancedSearch builds it.
AdvancedBody(req) ==
    [query |-> AdvancedQuery(req),
     size |-> IF "size" \in DOMAIN req THEN ParseInt(req.size) ELSE Num(10),
     from |-> IF "from" \in DOMAIN req THEN ParseInt(req.from) ELSE Num(0),
     sort |-> BuildSortConfig(IF "sortBy" \in DOMAIN req THEN req.sortBy ELSE "_score",
                              IF "sortOrder" \in DOMAIN req THEN req.sortOrder
                              ELSE "desc"),
     aggs |-> [sites |-> "SITE", clusters |-> "CLUSTERID", users |-> "USERNAME"]]

\* The raw answers to an advanced search, with and without aggregations.
AdvancedResponses ==
    {JsObject([body |-> JsObject([hits |-> JsObject([total |-> t, hits |-> a]),
                                  aggregations |-> JsObject([sites |-> 1])])]) :
        t \in {JsObject([value |-> JsNumber(3), relation |-> JsString("eq")])},
        a \in {<<RawHit("65a1", FALSE)>>}}
        \cup {JsObject([hits |-> JsObject([total |-> JsNumber(0), hits |-> << >>])]),
               JsObject(EmptyMap)}

\* The answer of advancedSearch to a raw answer of the engine.
FormatAdvancedResult(response) ==
    LET hits == HitsOf(response)
    IN  [total |-> [value |-> TotalValue(hits), relation |-> TotalRelation(hits)],
         hits |-> IF "hits" \notin DOMAIN hits THEN << >>
                  ELSE [i \in 1..Len(hits.hits) |->
                          [id |-> hits.hits[i]._id, score |-> hits.hits[i]._score,
                           source |-> hits.hits[i]._source]],
         aggregations |-> Or(Member(Member(response, "body"), "aggregations"),
                             Or(Member(response, "aggregations"), JsObject(EmptyMap)))]

\* GET /api/search/advanced: no validation; the catch answers every error
\* alike, with error.message.
AdvancedSearch(req, fault, nodeEnv, response) ==
    LET answer(status, json) ==
            [op |-> "advanced", req |-> req, fault |-> fault, nodeEnv |-> nodeEnv,
             status |-> status, sent |-> TRUE, body |-> AdvancedBody(req), json |-> json,
             response |-> IF status = 200 THEN response ELSE Undefined]
    IN  /\ UNCHANGED <<mongo, es, indexExists, events, aborted, changes,
                     rejectsMetaField, inflight, server>>
        /\ last' =
             IF fault
             THEN answer(500, [error |-> "Advanced search failed",
                               message |-> EngineFaultMessage])
             ELSE IF ~indexExists
             THEN answer(500, [error |-> "Advanced search failed",
                               message |-> IndexMissingMessage])
             ELSE answer(200, FormatAdvancedResult(response))

\* How the engine decides whether a document matches a query. A clause: term
\* is equality; wildcard *v* and prefix compare the stored keyword, or the
\* lowercased token of a text field (VALUE); match compares lowercased tokens;
\* a match on FIELD.autocomplete analyses both sides into edge n-grams from
\* length 1, so one-word values match when their first letters agree.
ClauseMatches(c, doc) ==
    /\ c.field \in DOMAIN doc
    /\ LET stored == IF c.field = "VALUE" THEN ToLowerCase(doc[c.field])
                     ELSE doc[c.field]
       IN  CASE c.strategy = "term" -> doc[c.field] = c.value
             [] c.strategy = "wildcard" -> Includes(stored, c.value)
             [] c.strategy = "prefix" -> StartsWith(stored, c.value)
             [] c.strategy = "match" -> ToLowerCase(doc[c.field]) = ToLowerCase(c.value)
             [] c.strategy = "autocomplete" ->
                    /\ doc[c.field] # "" /\ c.value # ""
                    /\ Chars(ToLowerCase(doc[c.field]))[1] = Chars(ToLowerCase(c.value))[1]

\* should with minimum_should_match 1
ShouldMatches(query, doc) ==
    \E i \in 1..Len(query.should) : ClauseMatches(query.should[i], doc)

\* terms: the field equals one of the values; range: gte and lte, inclusive.
FilterMatches(f, doc) ==
    /\ f.field \in DOMAIN doc
    /\ IF f.kind = "terms"
       THEN \E i \in 1..Len(f.values) : doc[f.field] = f.values[i]
       ELSE /\ "gte" \in DOMAIN f.range
                  => DateValue(doc[f.field]) >= DateValue(f.range.gte)
            /\ "lte" \in DOMAIN f.range
                  => DateValue(doc[f.field]) <= DateValue(f.range.lte)

\* bool: every must and every filter.
QueryMatches(query, doc) ==
    CASE query.kind = "match_all" -> TRUE
      [] query.kind = "bool" ->
           /\ \A i \in 1..Len(query.must) : ShouldMatches(query.must[i], doc)
           /\ \A i \in 1..Len(query.filter) : FilterMatches(query.filter[i], doc)
      [] OTHER -> ShouldMatches(query, doc)

\* ----------------------------------------------------------- get by id
\* esClient.get: the document at id; a missing document or index is a 404.
EsGet(id, fault) ==
    IF fault THEN [ok |-> FALSE, status |-> 503]
    ELSE IF ~indexExists \/ id \notin DOMAIN es THEN [ok |-> FALSE, status |-> 404]
    ELSE [ok |-> TRUE, status |-> 200, _id |-> id, _source |-> es[id]]

\* GET /api/search/document/:id (the route never passes an empty id).
GetById(id, fault, nodeEnv) ==
    LET r == EsGet(id, fault)
        answer(status, json) ==
            [op |-> "document", id |-> id, fault |-> fault, nodeEnv |-> nodeEnv,
             status |-> status, sent |-> TRUE, json |-> json]
    IN  /\ UNCHANGED <<mongo, es, indexExists, events, aborted, changes,
                     rejectsMetaField, inflight, server>>
        /\ last' =
             IF r.ok THEN answer(200, [id |-> r._id, source |-> r._source])
             ELSE IF r.status = 404 THEN answer(404, [error |-> "Document not found"])
             ELSE answer(500, [error |-> "Failed to retrieve document",
                               message |-> EngineFaultMessage])


\* ------------------------------------------------------------------ startup
\* startServer awaits connectMongoDB, connectElasticsearch (cluster.health,
\* then createIndexIfNotExists) and setupChangeStreams, then calls
\* app.listen; its catch block calls process.exit(1).
StartupSteps == <<"connectMongoDB", "connectElasticsearch", "setupChangeStreams">>

\* The process before startServer has awaited anything, and a process that
\* went through the whole of startServer.
Starting ==
    [pc |-> "connectMongoDB", completed |-> << >>, streams |-> FALSE,
     created |-> FALSE, failed |-> "none", exited |-> FALSE, exitCode |-> 0]
Started ==
    [pc |-> "listening", completed |-> StartupSteps, streams |-> TRUE,
     created |-> FALSE, failed |-> "none", exited |-> FALSE, exitCode |-> 0]

\* The catch block of startServer: process.exit(1).
ProcessExit(step) ==
    [server EXCEPT !.pc = "exited", !.failed = step, !.exited = TRUE, !.exitCode = 1]

\* A step of startServer returned: the next await is reached.
StepDone(step, next) ==
    [server EXCEPT !.pc = next, !.completed = Append(@, step)]

\* connectMongoDB: client.connect(); its catch block logs and rethrows.
ConnectMongoDB(fault) ==
    /\ server.pc = "connectMongoDB"
    /\ server' = IF fault THEN ProcessExit("connectMongoDB")
                 ELSE StepDone("connectMongoDB", "clusterHealth")
    /\ last' = [op |-> "startup", step |-> "connectMongoDB", threw |-> fault]
    /\ UNCHANGED <<mongo, es, indexExists, events, aborted, changes,
                   rejectsMetaField, inflight>>

\* connectElasticsearch, first await: esClient.cluster.health().
ClusterHealth(fault) ==
    /\ server.pc = "clusterHealth"
    /\ server' = IF fault THEN ProcessExit("connectElasticsearch")
                 ELSE [server EXCEPT !.pc = "createIndexIfNotExists"]
    /\ last' = [op |-> "startup", step |-> "clusterHealth", threw |-> fault]
    /\ UNCHANGED <<mongo, es, indexExists, events, aborted, changes,
                   rejectsMetaField, inflight>>

\* connectElasticsearch, second await: createIndexIfNotExists creates the
\* index when indices.exists answers that there is none; both catch blocks
\* log and rethrow.
CreateIndexIfNotExists(fault) ==
    /\ server.pc = "createIndexIfNotExists"
    /\ IF fault
       THEN /\ server' = ProcessExit("connectElasticsearch")
            /\ UNCHANGED indexExists
       ELSE /\ server' = [StepDone("connectElasticsearch", "setupChangeStreams")
                             EXCEPT !.created = ~indexExists]
            /\ indexExists' = TRUE
    /\ last' = [op |-> "startup", step |-> "createIndexIfNotExists", threw |-> fault]
    /\ UNCHANGED <<mongo, es, events, aborted, changes, rejectsMetaField, inflight>>

\* The catch block of setupChangeStreams: the error is logged and false is
\* returned; TRUE iff the error is raised to startServer.
CatchStreamErrorRethrow(threw) == threw
CatchStreamError(threw) == FALSE

\* setupChangeStreams: returns true, or false when its body threw.
SetupChangeStreams(threw) ==
    /\ server.pc = "setupChangeStreams"
    /\ server' = IF CatchStreamError(threw) THEN ProcessExit("setupChangeStreams")
                 ELSE [StepDone("setupChangeStreams", "listen")
                          EXCEPT !.streams = ~threw]
    /\ last' = [op |-> "startup", step |-> "setupChangeStreams", threw |-> threw]
    /\ UNCHANGED <<mongo, es, indexExists, events, aborted, changes,
                   rejectsMetaField, inflight>>

\* app.listen(PORT, ...): the server accepts requests.
Listen ==
    /\ server.pc = "listen"
    /\ server' = [server EXCEPT !.pc = "listening"]
    /\ last' = [op |-> "startup", step |-> "listen", threw |-> FALSE]
    /\ UNCHANGED <<mongo, es, indexExists, events, aborted, changes,
                   rejectsMetaField, inflight>>

\* ------------------------------------------------------------ the system
\* After startServer: both stores connected, the index created and empty, no
\* record yet, no event delivered.
Init ==
    /\ mongo = EmptyMap
    /\ es = EmptyMap
    /\ indexExists = TRUE
    /\ events = << >>
    /\ aborted = FALSE
    /\ changes = 0
    /\ rejectsMetaField \in BOOLEAN
    /\ inflight = NoBatch
    /\ server = Started
    /\ last = [op |-> "init"]

Next ==
    \/ \E oid \in ObjectIds, ip \in Ips : MongoInsert(oid, ip)
    \/ \E oid \in ObjectIds, ip \in Ips : MongoUpdate(oid, ip)
    \/ \E oid \in ObjectIds : MongoDelete(oid)
    \/ \E fault \in BOOLEAN : HandleChangeEvent(fault)
    \/ \E fault \in Faults : ReconcileRoute(fault)
    \/ \E fault \in Faults : BulkSyncToElasticsearch(fault)
    \/ \E fault \in Faults : SyncStatus(fault)
    \/ IndexDropped

Spec == Init /\ [][Next]_vars

\* Search requests against an index that exists or has been removed. A
\* request reads nothing an earlier request left, so one request is explored
\* from each condition of the index.
NextSearch ==
    \/ /\ last.op # "search"
       /\ \E req \in SearchRequests, fault \in BOOLEAN,
             nodeEnv \in NodeEnvs, response \in SearchResponses :
                Search(req, fault, nodeEnv, response)
    \/ IndexDropped

SpecSearch == Init /\ [][NextSearch]_vars

\* The other query operations (autocomplete, advanced search, get by id)
\* against an index that a reconcile has written one record to, or that has
\* been removed; one request from each condition of the index.
InitQuery ==
    /\ mongo = Put(EmptyMap, 1, MongoDoc(1, "10.0.0.1"))
    /\ es = Put(EmptyMap, IdToString(1), DocWithoutId(MongoDoc(1, "10.0.0.1")))
    /\ indexExists = TRUE
    /\ events = << >>
    /\ aborted = FALSE
    /\ changes = 1
    /\ rejectsMetaField = FALSE
    /\ inflight = NoBatch
    /\ server = Started
    /\ last = [op |-> "init"]

NextQuery ==
    \/ /\ last.op \in {"init", "dropped"}
       /\ \/ \E req \in AutocompleteRequests, fault \in BOOLEAN, nodeEnv \in NodeEnvs,
                response \in AutocompleteResponses :
                   Autocomplete(req, fault, nodeEnv, response)
          \/ \E req \in AdvancedRequests, fault \in BOOLEAN, nodeEnv \in NodeEnvs,
                response \in AdvancedResponses :
                   AdvancedSearch(req, fault, nodeEnv, response)
          \/ \E id \in {IdToString(oid) : oid \in ObjectIds}, fault \in BOOLEAN,
                nodeEnv \in NodeEnvs : GetById(id, fault, nodeEnv)
    \/ IndexDropped

SpecQuery == InitQuery /\ [][NextQuery]_vars

\* The route reconciler suspended at its awaits, racing with the record
\* store's changes and the propagator.
NextRace ==
    \/ \E oid \in ObjectIds, ip \in Ips : MongoInsert(oid, ip)
    \/ \E oid \in ObjectIds, ip \in Ips : MongoUpdate(oid, ip)
    \/ \E oid \in ObjectIds : MongoDelete(oid)
    \/ \E fault \in BOOLEAN : HandleChangeEvent(fault)
    \/ \E fault \in BOOLEAN : ReconcileRouteFind(fault)
    \/ \E fault \in BOOLEAN : ReconcileRouteBulk(fault)

SpecRace == Init /\ [][NextRace]_vars

\* startServer from a fresh process, against an engine whose index exists
\* already or not, while the record store changes; the status probe is
\* served once the server listens.
InitStartup ==
    /\ mongo = EmptyMap
    /\ es = EmptyMap
    /\ indexExists \in BOOLEAN
    /\ events = << >>
    /\ aborted = FALSE
    /\ changes = 0
    /\ rejectsMetaField = FALSE
    /\ inflight = NoBatch
    /\ server = Starting
    /\ last = [op |-> "init"]

NextStartup ==
    \/ \E fault \in BOOLEAN : ConnectMongoDB(fault)
    \/ \E fault \in BOOLEAN : ClusterHealth(fault)
    \/ \E fault \in BOOLEAN : CreateIndexIfNotExists(fault)
    \/ \E threw \in BOOLEAN : SetupChangeStreams(threw)
    \/ Listen
    \/ \E oid \in ObjectIds, ip \in Ips : MongoInsert(oid, ip)
    \/ \E oid \in ObjectIds, ip \in Ips : MongoUpdate(oid, ip)
    \/ \E oid \in ObjectIds : MongoDelete(oid)
    \/ server.pc = "listening" /\ \E fault \in Faults : SyncStatus(fault)

SpecStartup == InitStartup /\ [][NextStartup]_vars

\* The projector applied to every bounded record.
NextProjector == \E doc \in ProjectorInputs : Transform(doc)

SpecProjector == Init /\ [][NextProjector]_vars

\* ================================================================== claims
IndexIds == DOMAIN es
RecordIdStrings == {IdToString(oid) : oid \in DOMAIN mongo}

\* The last operation was a reconcile (by either reconciler) whose batch call
\* returned, or that found the collection empty.
ReconcileCompleted == last.op = "reconcile" /\ last.completed

\* C1 (as claimed): after a reconcile that completes with no failing document
\* and with no change event in flight, the index identifiers are exactly the
\* string forms of the record identifiers.
C1_IdentifierCorrespondence ==
    (ReconcileCompleted /\ last.failing = 0 /\ events = << >>)
        => IndexIds = RecordIdStrings

\* C2: a reconcile that directly follows a completed reconcile by the same
\* reconciler (no record store change, event or other operation in between)
\* leaves every index document, and the identifier set, as the first left them.
C2_ReconcileIdempotent ==
    [][(ReconcileCompleted /\ last'.op = "reconcile" /\ last'.via = last.via)
          => es' = es]_vars

\* C2 witness: a second reconcile of a non-empty collection has run right
\* after a completed first one.
C2_Witness ==
    /\ ReconcileCompleted
    /\ last.again
    /\ last.writes # << >>
    /\ last.failing = 0

\* C3 (as claimed): an update event for an identifier that has no index
\* document, applied with no transport fault and carrying a document the
\* engine accepts, leaves an index document under that identifier with the
\* record's fields.
C3_UpdateIsUpsert ==
    (/\ last.op = "event"
     /\ last.type = "update"
     /\ last.missing
     /\ ~last.fault
     /\ ~Refused(last.doc))
        => (last.id \in IndexIds /\ es[last.id].IPV4 = last.doc.IPV4)

\* C4: applying a delete event for an identifier that has no index document
\* raises nothing to the caller of the propagator, does not stop the stream,
\* and leaves the index unchanged.
C4_DeleteTolerance ==
    [][(/\ events # << >>
        /\ Head(events).operationType = "delete"
        /\ ClientId(Head(events).documentKey._id) \notin IndexIds
        /\ last'.op = "event"
        /\ events' = Tail(events))
          => (es' = es /\ ~last'.raised /\ ~aborted')]_vars

\* C4 witness: a delete event met a missing document: the engine answered
\* 404 (no transport fault) and the propagator returned.
C4_Witness ==
    /\ last.op = "event"
    /\ last.type = "delete"
    /\ last.missing
    /\ ~last.fault
    /\ last.failed

\* C5: an event whose index call fails leaves the index as it was, raises
\* nothing to the caller and does not stop the stream; the event applied
\* right after a failed one has the effect of its own index call.
C5_FailureIsolated ==
    [][(events # << >> /\ last'.op = "event" /\ events' = Tail(events))
          => /\ last'.failed => (es' = es /\ ~last'.raised /\ ~aborted')
             /\ (last.op = "event" /\ last.failed)
                    => (/\ last'.afterFailure
                        /\ es' = ApplyChange(Head(events), last'.fault).es)]_vars

\* C5 witness: an insert was applied, and is in the index, right after an
\* event that failed.
C5_Witness ==
    /\ last.op = "event"
    /\ last.afterFailure
    /\ ~last.failed
    /\ last.type = "insert"
    /\ last.id \in IndexIds

\* Documents of the collection whose index write the engine refuses.
FailingDocs == {oid \in DOMAIN mongo : Refused(DocWithoutId(mongo[oid]))}

C7_SameProjection ==
    (last.op = "event" /\ last.type = "insert")
        => /\ last.write.id = RouteWrite(last.doc).id
           /\ last.write.id = ServiceWrite(last.doc).id
           /\ last.write.body = RouteWrite(last.doc).body
           /\ last.write.body = ServiceWrite(last.doc).body
           /\ "_id" \notin DOMAIN last.write.body

\* C9: the status probe answers with the record count, the index count (zero
\* when the index does not exist), synced = (counts equal) and difference =
\* record count - index count; it succeeds when the index is missing and
\* fails on any other failure of a backing store.
C9_StatusProbe ==
    last.op = "status"
        => IF last.fault = "none"
           THEN /\ last.status = 200
                /\ last.json.mongodb.count = Cardinality(DOMAIN mongo)
                /\ last.json.elasticsearch.count =
                      (IF indexExists THEN Cardinality(IndexIds) ELSE 0)
                /\ last.json.synced =
                      (last.json.mongodb.count = last.json.elasticsearch.count)
                /\ last.json.difference =
                      last.json.mongodb.count - last.json.elasticsearch.count
           ELSE last.status = 500

\* C9 witness: the probe succeeded while the index did not exist and the
\* record store held records.
C9_Witness ==
    /\ last.op = "status"
    /\ ~indexExists
    /\ last.status = 200
    /\ last.json.elasticsearch.count = 0
    /\ last.json.difference > 0
    /\ ~last.json.synced

\* Text fields of the projected record that hold a non-empty value.
Filled(doc) == {i \in 1..Len(TextFields) :
                   TextFields[i] \in DOMAIN doc /\ doc[TextFields[i]] # ""}

\* C8 (as claimed): suggest.input holds each non-empty value among CLUSTERID,
\* SITE and DESCRIPTION exactly once, in field order; a missing or empty
\* field adds nothing and a value shared by two fields appears once.
C8_SuggestInputOnce ==
    last.op = "transform"
        => LET doc == last.doc
               input == last.out.suggest.input
               First(v) == CHOOSE i \in Filled(doc) :
                              /\ doc[TextFields[i]] = v
                              /\ \A j \in Filled(doc) : doc[TextFields[j]] = v => i <= j
           IN  /\ \A i \in Filled(doc) :
                     Cardinality({k \in 1..Len(input) : input[k] = doc[TextFields[i]]}) = 1
               /\ \A k \in 1..Len(input) :
                     input[k] # "" /\ \E i \in Filled(doc) : doc[TextFields[i]] = input[k]
               /\ \A k, m \in 1..Len(input) :
                     k < m => First(input[k]) < First(input[m])

\* C10: a search request whose q is exactly "*" is answered 400 by the
\* validation, with no query sent, or sends a match-all query; the field, the
\* fuzzy flag and the fuzziness (a field outside the allow-list included)
\* never change the query, and a request that passes the validation always
\* reaches the index.
C10_WildcardShortcut ==
    (last.op = "search" /\ "q" \in DOMAIN last.req /\ last.req.q = "*")
        => /\ ValidateSearch(last.req) = "next"
                 => (last.sent /\ last.body.query = MatchAll)
           /\ ValidateSearch(last.req) # "next"
                 => (~last.sent /\ last.status = 400)

\* C10 witness: q = "*" with a field outside the allow-list and fuzzy
\* enabled sent a match-all query.
C10_Witness ==
    /\ last.op = "search"
    /\ "q" \in DOMAIN last.req /\ last.req.q = "*"
    /\ "field" \in DOMAIN last.req /\ last.req.field = "NOPE"
    /\ "fuzzy" \in DOMAIN last.req /\ last.req.fuzzy = "true"
    /\ "fuzziness" \in DOMAIN last.req /\ last.req.fuzziness = "1"
    /\ last.sent
    /\ last.body.query.kind = "match_all"
    /\ last.status = 200

\* The request of the last search passed validateSearch.
SearchValidated == last.op = "search" /\ ValidateSearch(last.req) = "next"

\* C11 (as claimed): a search request that passes the validation with q other
\* than "*" and a field outside the allow-list (in any letter case) is
\* answered with a client error (400), not the service error (500), and no
\* query is sent to the index.
C11_UnknownFieldRejected ==
    (/\ SearchValidated
     /\ last.req.q # "*"
     /\ Truthy(last.req, "field")
     /\ ToUpperCase(last.req.field) \notin DOMAIN FieldMapping)
        => (last.status = 400 /\ ~last.sent)

\* The fuzzy flag as the claim reads it: disabled when absent or supplied as
\* false, enabled when supplied as true.
FuzzyDisabled(req) == "fuzzy" \notin DOMAIN req \/ ToLowerCase(req.fuzzy) = "false"
FuzzyEnabled(req) == "fuzzy" \in DOMAIN req /\ ToLowerCase(req.fuzzy) = "true"

\* C12 (as claimed): the match clause of a validated request on a free-text
\* field, or of the unscoped query, has fuzziness 0 when fuzzy is disabled and
\* the requested fuzziness (AUTO when none is requested) when it is enabled.
C12_FuzzinessOnlyWhenEnabled ==
    (SearchValidated /\ last.sent /\ last.body.query.kind \in {"text", "multi"})
        => /\ FuzzyDisabled(last.req) => last.body.query.fuzziness = [number |-> 0]
           /\ FuzzyEnabled(last.req) =>
                 last.body.query.fuzziness =
                    [string |-> IF "fuzziness" \in DOMAIN last.req
                                THEN last.req.fuzziness ELSE "AUTO"]

\* A pagination parameter is supplied when it is present and not blank; its
\* value is the number its string denotes.
Supplied(req, name) == name \in DOMAIN req /\ Trim(req[name]) # ""
SizeOutOfRange(req) ==
    /\ Supplied(req, "size")
    /\ \/ NumberOf(req.size).nan
       \/ NumberOf(req.size).val < 1
       \/ NumberOf(req.size).val > 100
FromNegative(req) ==
    Supplied(req, "from") /\ ~NumberOf(req.from).nan /\ NumberOf(req.from).val < 0
FromNotANumber(req) == Supplied(req, "from") /\ NumberOf(req.from).nan

\* C13 (as claimed): a search request whose size is outside 1..100 or whose
\* from is negative is answered 400 with no query sent; a request with a
\* non-empty q, a size in 1..100 (or none), a from >= 0 (or none) and no fuzzy
\* directive passes the validation.
C13_PaginationBounds ==
    (/\ last.op = "search"
     /\ Truthy(last.req, "q") /\ Trim(last.req.q) # ""
     /\ DOMAIN last.req \cap {"fuzzy", "fuzziness"} = {})
        => /\ (SizeOutOfRange(last.req) \/ FromNegative(last.req))
                 => (last.status = 400 /\ ~last.sent)
           /\ (/\ ~SizeOutOfRange(last.req)
               /\ ~FromNegative(last.req)
               /\ ~FromNotANumber(last.req))
                 => (ValidateSearch(last.req) = "next" /\ last.status # 400)

\* C14 (as claimed): when sortBy is absent or outside the sort allow-list,
\* whatever the sortOrder, a validated request whose query builds is sent
\* with exactly one sort key: relevance, descending.
C14_SortFallback ==
    (/\ SearchValidated
     /\ BuildQuery(last.req).ok
     /\ \/ "sortBy" \notin DOMAIN last.req
        \/ last.req.sortBy \notin {"_score", "TIMESTAMP", "CLUSTERID", "SITE", "USERNAME"})
        => (last.sent /\ last.body.sort = <<[field |-> "_score", order |-> "desc"]>>)

\* What the engine reported in a raw answer: its hits object wherever the
\* client puts it, and the numeric total in either form.
EngineHits(response) ==
    IF "body" \in DOMAIN response /\ "hits" \in DOMAIN response.body
    THEN response.body.hits
    ELSE IF "hits" \in DOMAIN response THEN response.hits
    ELSE Undefined
EngineTotal(response) ==
    IF EngineHits(response) # Undefined /\ "total" \in DOMAIN EngineHits(response)
    THEN EngineHits(response).total
    ELSE Undefined
EngineTotalNumber(response) ==
    IF EngineTotal(response).t = "number" THEN EngineTotal(response)
    ELSE EngineTotal(response).value

\* C17 (as claimed): the answer to a raw engine answer has total.value the
\* number the engine reported, zero included, and total.relation the engine's
\* flag; when total is missing total.value is the number 0, and when the hits
\* are missing hits is the empty list.
C17_TotalSurfaced ==
    (last.op = "search" /\ last.status = 200)
        => /\ EngineTotal(last.response) # Undefined
                 => /\ last.json.total.value = EngineTotalNumber(last.response)
                    /\ "relation" \in DOMAIN EngineTotal(last.response)
                          => last.json.total.relation = EngineTotal(last.response).relation
           /\ EngineTotal(last.response) = Undefined
                 => last.json.total.value = JsNumber(0)
           /\ (\/ EngineHits(last.response) = Undefined
               \/ "hits" \notin DOMAIN EngineHits(last.response))
                 => last.json.hits = << >>

\* The boosts of the clauses of a should list that use one of the strategies
\* on one of the fields.
Boosts(should, strategies, fields) ==
    {should[i].boost : i \in {j \in 1..Len(should) :
                                 /\ should[j].strategy \in strategies
                                 /\ should[j].field \in fields}}
AllFields == {"CLUSTERID", "SITE", "USERNAME", "VALUE"}

\* C20 (as claimed): in the unscoped query every exact (term) boost is
\* greater than every substring, fuzzy and autocomplete-token boost, each of
\* these is greater than every prefix boost, and the exact boosts of
\* CLUSTERID and SITE are greater than the exact boost of USERNAME.
C20_BoostTiers ==
    (last.op = "search" /\ last.sent /\ last.body.query.kind = "multi")
        => LET should == last.body.query.should
               exact == Boosts(should, {"term"}, AllFields)
               middle == Boosts(should, {"wildcard", "match", "autocomplete"}, AllFields)
               prefix == Boosts(should, {"prefix"}, AllFields)
           IN  /\ \A e \in exact, m \in middle : e > m
               /\ \A m \in middle, p \in prefix : m > p
               /\ \A i \in Boosts(should, {"term"}, {"CLUSTERID", "SITE"}),
                     u \in Boosts(should, {"term"}, {"USERNAME"}) : i > u

\* The hits the engine returned to the last autocomplete, wherever the client
\* puts them.
ReturnedHits(response) ==
    IF "body" \in DOMAIN response /\ "hits" \in DOMAIN response.body
    THEN response.body.hits.hits
    ELSE IF "hits" \in DOMAIN response THEN response.hits.hits
    ELSE << >>

\* The fields a suggestion may come from: the field the request names, else
\* the fixed list.
EligibleFields(req) ==
    IF Truthy(req, "field") THEN {req.field}
    ELSE {"CLUSTERID", "SITE", "USERNAME", "VALUE"}

\* The values of eligible fields of the hits that contain the query, letter
\* case ignored.
MatchingValues(hits, req) ==
    {hits[i]._source[f] : <<i, f>> \in
        {p \in (1..Len(hits)) \X EligibleFields(req) :
            /\ p[2] \in DOMAIN hits[p[1]]._source
            /\ Includes(ToLowerCase(hits[p[1]]._source[p[2]]), ToLowerCase(req.q))}}

\* C15: the suggestions of an answered autocomplete hold no text twice and
\* at most 10 entries; every text is a value of an eligible field of a hit
\* that contains the query, letter case ignored; and when the hits carry at
\* most 10 such values each of them is a suggestion (once, however many hits
\* carry it).
C15_SuggestionsDeduplicated ==
    (last.op = "autocomplete" /\ last.status = 200)
        => LET hits == ReturnedHits(last.response)
               suggestions == last.json.suggestions
               values == MatchingValues(hits, last.req)
           IN  /\ \A i, j \in 1..Len(suggestions) :
                     i # j => suggestions[i].text # suggestions[j].text
               /\ Len(suggestions) <= 10
               /\ \A i \in 1..Len(suggestions) : suggestions[i].text \in values
               /\ Cardinality(values) <= 10
                     => \A v \in values :
                           \E i \in 1..Len(suggestions) : suggestions[i].text = v

\* C15 witness: three hits share CLUSTERID "c1" and the answer to the prefix
\* "c" holds that text once, among other suggestions.
C15_Witness ==
    /\ last.op = "autocomplete"
    /\ last.status = 200
    /\ last.req.q = "c"
    /\ Len(ReturnedHits(last.response)) = 3
    /\ \A i \in 1..3 : ReturnedHits(last.response)[i]._source.CLUSTERID = "c1"
    /\ Cardinality({i \in 1..Len(last.json.suggestions) :
                       last.json.suggestions[i].text = "c1"}) = 1
    /\ Len(last.json.suggestions) > 1

\* The answers that report a failure of a backing store to the caller.
ServiceErrorAnswer == "status" \in DOMAIN last /\ last.status >= 500

\* C18 (as claimed): in a production context no error answer of a query
\* operation carries the underlying error message of the backing store.
C18_NoUnderlyingMessageInProduction ==
    (/\ last.op \in {"search", "autocomplete", "advanced", "document"}
     /\ ServiceErrorAnswer
     /\ last.nodeEnv = "production")
        => ~(/\ "message" \in DOMAIN last.json
             /\ last.json.message \in {EngineFaultMessage, IndexMissingMessage})

\* C19 (as claimed): a query operation that reaches the engine while the
\* index does not exist, with no transport fault, answers not found (404)
\* and tells the caller to run a bulk sync first; the answer is neither the
\* document-not-found answer nor a service error.
C19_IndexMissingReported ==
    (/\ last.op \in {"search", "autocomplete", "advanced"}
     /\ last.sent
     /\ ~last.fault
     /\ ~indexExists)
        => /\ last.status = 404
           /\ last.json.error = "Search index not found"
           /\ last.json.message = "Please run bulk sync first to create the index"

\* The documents an advanced search is evaluated on: every combination of a
\* site, a cluster, a user name, a timestamp and a one-word free text.
AdvancedDocs ==
    [SITE : {"east", "west", "East", ""}, CLUSTERID : {"c1", "c2"},
     USERNAME : {"ann", "bob"}, TIMESTAMP : {Dates[i] : i \in 1..Len(Dates)},
     VALUE : {"east", "lab"}]

\* The values a membership parameter lists.
Listed(list) == {SplitTrim(list)[i] : i \in 1..Len(SplitTrim(list))}

\* What the claim asks of a document, read from the request.
SatisfiesRequest(req, doc) ==
    /\ Truthy(req, "sites") => doc.SITE \in Listed(req.sites)
    /\ Truthy(req, "clusters") => doc.CLUSTERID \in Listed(req.clusters)
    /\ Truthy(req, "usernames") => doc.USERNAME \in Listed(req.usernames)
    /\ Truthy(req, "dateFrom") => DateValue(doc.TIMESTAMP) >= DateValue(req.dateFrom)
    /\ Truthy(req, "dateTo") => DateValue(doc.TIMESTAMP) <= DateValue(req.dateTo)
    /\ Truthy(req, "q")
          => ShouldMatches(BuildMultiFieldQuery(req.q, [number |-> 0]), doc)

NoCondition(req) ==
    \A name \in {"q", "sites", "clusters", "usernames", "dateFrom", "dateTo"} :
        ~Truthy(req, name)

\* C16: the query of an advanced search matches exactly the documents that
\* satisfy every supplied filter (membership: the field equals one of the
\* listed values; timestamp: within the inclusive range) and, when q is
\* given, the multi-field text clause; with no q and no filter it is
\* match-all.
C16_FiltersConjunctive ==
    last.op = "advanced"
        => /\ \A doc \in AdvancedDocs :
                 QueryMatches(last.body.query, doc) <=> SatisfiesRequest(last.req, doc)
           /\ NoCondition(last.req) => last.body.query = MatchAll

\* C16 witness: a request with q, two sites, a cluster and a date range on
\* both sides was sent; its query matches some document and leaves out a
\* document for its site, one for its cluster, one for its date and one for
\* its text.
C16_Witness ==
    /\ last.op = "advanced"
    /\ last.status = 200
    /\ \A name \in {"q", "sites", "clusters", "dateFrom", "dateTo"} :
          Truthy(last.req, name)
    /\ Len(SplitTrim(last.req.sites)) = 2
    /\ \E doc \in AdvancedDocs : QueryMatches(last.body.query, doc)
    /\ \E doc \in AdvancedDocs :
          /\ ~QueryMatches(last.body.query, doc)
          /\ doc.SITE \in Listed(last.req.sites)
          /\ doc.CLUSTERID \in Listed(last.req.clusters)
          /\ DateValue(doc.TIMESTAMP) >= DateValue(last.req.dateFrom)
          /\ DateValue(doc.TIMESTAMP) <= DateValue(last.req.dateTo)
    /\ \E doc \in AdvancedDocs :
          /\ ~QueryMatches(last.body.query, doc)
          /\ doc.SITE \notin Listed(last.req.sites)
    /\ \E doc \in AdvancedDocs :
          /\ ~QueryMatches(last.body.query, doc)
          /\ DateValue(doc.TIMESTAMP) > DateValue(last.req.dateTo)

\* A number the index accepts as a size or an offset within the given limits.
IntegerIn(n, low, high) == ~n.nan /\ n.val >= low /\ n.val <= high

\* C22 (as claimed): every query that search or advanced search sends
\* carries a size that is an integer in 1..100 and a from that is an
\* integer >= 0, and every query that autocomplete sends carries a size that
\* is an integer in 1..20, whatever the request parameters are.
C22_SentPaginationBounded ==
    /\ (last.op \in {"search", "advanced"} /\ last.sent)
          => /\ IntegerIn(last.body.size, 1, 100)
             /\ ~last.body.from.nan /\ last.body.from.val >= 0
    /\ (last.op = "autocomplete" /\ last.sent)
          => IntegerIn(last.body.size, 1, 20)

\* The record identifiers as of the last applied event: the record store's
\* identifiers with the changes whose events are still in flight undone, the
\* latest first.
RECURSIVE UndoChanges(_, _)
UndoChanges(ids, pending) ==
    IF pending = << >> THEN ids
    ELSE LET change == pending[Len(pending)]
             id == IdToString(change.documentKey._id)
             before == CASE change.operationType = "insert" -> ids \ {id}
                         [] change.operationType = "delete" -> ids \cup {id}
                         [] OTHER -> ids
         IN  UndoChanges(before, SubSeq(pending, 1, Len(pending) - 1))
AppliedRecordIds == UndoChanges(RecordIdStrings, events)

\* C23: when the index identifiers equal the record identifiers as of the
\* events applied so far, and the propagator applies the next delivered event
\* with no failing index call, the index identifiers equal the record
\* identifiers as of that event; with no event left in flight they equal the
\* record store's identifiers.
C23_PropagationKeepsCorrespondence ==
    [][(/\ IndexIds = AppliedRecordIds
        /\ events # << >>
        /\ last'.op = "event"
        /\ events' = Tail(events)
        /\ ~last'.failed)
          => /\ IndexIds' = AppliedRecordIds'
             /\ events' = << >> => IndexIds' = RecordIdStrings']_vars

\* C23 witness: an insert and then a delete of a record were each applied
\* from equal identifier sets with no failing call: the delete event found
\* its document and no event is left in flight.
C23_Witness ==
    /\ last.op = "event"
    /\ last.type = "delete"
    /\ ~last.failed
    /\ ~last.missing
    /\ ~last.afterFailure
    /\ changes = 2
    /\ events = << >>
    /\ IndexIds = RecordIdStrings

\* C21: with no lock and no version check, the write that arrived last
\* decides the index state at an identifier: after the batch write of a
\* reconcile request, every document of its snapshot that the engine
\* accepted is present with the batch's projection, whether or not its
\* record was deleted and that delete applied since the snapshot; after a
\* delete event has reached the engine, no document is at its identifier,
\* whether or not a batch wrote one before.
C21_LastWriteWins ==
    /\ (last.op = "reconcile" /\ last.via = "route" /\ last.completed)
          => \A i \in 1..Len(last.writes) :
                ~Refused(last.writes[i].body)
                   => /\ last.writes[i].id \in IndexIds
                      /\ es[last.writes[i].id] = last.writes[i].body
    /\ (last.op = "event" /\ last.type = "delete" /\ ~last.fault)
          => last.id \notin IndexIds

\* C21 witness: the batch write arrived last. The snapshot held a record
\* that was then deleted; its delete event reached the engine right before
\* the batch write, which put the document back with the batch's projection
\* while the record store no longer holds the record.
C21_Witness ==
    /\ last.op = "reconcile"
    /\ last.via = "route"
    /\ last.completed
    /\ events = << >>
    /\ \E i \in 1..Len(last.writes) :
          /\ last.writes[i].id \in inflight.overtook
          /\ last.writes[i].id \notin RecordIdStrings
          /\ last.writes[i].id \in IndexIds
          /\ es[last.writes[i].id] = last.writes[i].body

\* The process is at one of the awaits of startServer, listening, or gone.
ConnectionSteps == {"connectMongoDB", "connectElasticsearch"}
IsPrefix(a, b) == Len(a) <= Len(b) /\ a = SubSeq(b, 1, Len(a))

\* C24: the server listens only when connectMongoDB, connectElasticsearch
\* (with the index existing) and setupChangeStreams have returned, in that
\* order; the steps always complete in that order; a failing connection step
\* ends the process with exit code 1, and an ended process never listens; a
\* setupChangeStreams that reports failure is followed by app.listen.
C24_StartupOrder ==
    /\ [](/\ IsPrefix(server.completed, StartupSteps)
          /\ server.pc \in {"listen", "listening"}
                => (server.completed = StartupSteps /\ indexExists /\ ~server.exited)
          /\ server.exited <=> server.pc = "exited"
          /\ server.exited => (server.exitCode = 1 /\ server.failed \in ConnectionSteps)
          /\ (last.op = "startup" /\ last.threw /\ last.step # "setupChangeStreams")
                => (server.exited /\ server.exitCode = 1)
          /\ (last.op = "startup" /\ last.threw /\ last.step = "setupChangeStreams")
                => (server.pc = "listen" /\ ~server.streams))
    /\ [][(server.exited => server'.pc = "exited")
          /\ (server'.pc = "listening" /\ server.pc # "listening")
                => server.pc = "listen"]_vars

\* C24 witness: the server listens after a startup that created the index
\* and whose setupChangeStreams reported failure.
C24_Witness ==
    /\ server.pc = "listening"
    /\ server.created
    /\ ~server.streams
    /\ server.completed = StartupSteps

====
